---- MODULE Spec2Model ----
(***************************************************************************)
(* Model of the kairon_exercise market monitor:                            *)
(*   - calculate_spread_and_slippage (common_functions.py), the metrics    *)
(*     computation, with Python's ZeroDivisionError as an outcome;         *)
(*   - the two connectors: Kucoin (kucoin.py, handshake, own get_datapoint)*)
(*     and Binance (binance.py, on ExchangeBase);                          *)
(*   - start_sockets (main.py): the nested async-with, stream.zip over the *)
(*     two get_datapoint generators and the consuming loop.                *)
(* asyncio is single-threaded and cooperative: every action below is one   *)
(* stretch of code between two suspension points (await/yield).            *)
(* Floats are modelled as exact rationals <<num, den>>; rounding is not    *)
(* modelled.  The market/source arguments of calculate_spread_and_slippage *)
(* only feed a log line and are left out.                                  *)
(***************************************************************************)
EXTENDS Integers, Sequences, FiniteSets, TLC

(* ------------------------------ bounds ---------------------------------- *)
\* longest trade_history given to the metrics computation in SpecCalc
MaxTrades == 3
\* number of batches each get_datapoint generator may yield
MaxRounds == 2
\* number of frames the decode loops may receive, all connectors together
MaxFrames == 3
\* number of non-matching frames one handshake may discard
MaxDiscard == 1
\* clock ticks per time unit during the handshake
TicksPerUnit == 2

(* ------------------------------ values ---------------------------------- *)
Sources == {"kucoin", "binance"}
Markets == {"m1", "m2"}
\* prices carried by frames (whole-valued floats)
Prices == {0, 50, 100}
\* ticker and trade payloads the streaming frames carry
FrameTickers == {<<100, 50>>}
FramePrices == {100}
\* Python None: the empty tuple, so that it compares with tuples
None == <<>>

(* ------------------------------ rationals ------------------------------- *)
Abs(x) == IF x < 0 THEN -x ELSE x

RECURSIVE GCD(_, _)
GCD(a, b) == IF b = 0 THEN a ELSE GCD(b, a % b)

\* the rational n/d (d # 0) in lowest terms with a positive denominator
Rat(n, d) ==
    LET g == GCD(Abs(n), Abs(d))
        sgn == IF d < 0 THEN -1 ELSE 1
    IN  <<sgn * (n \div g), sgn * (d \div g)>>

RatAdd(p, q) == Rat(p[1] * q[2] + q[1] * p[2], p[2] * q[2])
RatLeq(p, q) == p[1] * q[2] <= q[1] * p[2]

RECURSIVE RatSum(_)
RatSum(list) == IF list = <<>> THEN <<0, 1>> ELSE RatAdd(Head(list), RatSum(Tail(list)))

(* ----------------- calculate_spread_and_slippage ------------------------ *)
\* a MarketData value: ticker is None or <<best_ask, best_bid>>
MarketData(ticker, trade_history, timestamp) ==
    [ticker |-> ticker, trade_history |-> trade_history, timestamp |-> timestamp]

\* a returned CalcData; exc = "" means the call returned
CalcData(spread, slippage, volume, timestamp) ==
    [exc |-> "", spread |-> spread, slippage |-> slippage,
     volume |-> volume, timestamp |-> timestamp]

\* the call raised exception e instead of returning
Raised(e) ==
    [exc |-> e, spread |-> None, slippage |-> None, volume |-> 0, timestamp |-> 0]

\* the threshold 2.0 of `if slippage <= 2.0`
SlippageLimit == 2

\* the mutant: the filter appends every trade
QualifiesNoFilter(slippage) == TRUE

\* `if slippage <= 2.0`
Qualifies(slippage) == RatLeq(slippage, <<SlippageLimit, 1>>)

\* the for loop over trade_history: the loop variable `slippage` is
\* overwritten by every trade, qualifying ones are appended to slippage_list;
\* a division by a zero price raises
RECURSIVE SlippageLoop(_, _, _, _)
SlippageLoop(best_ask, trade_history, slippage, slippage_list) ==
    IF trade_history = <<>>
    THEN [exc |-> "", slippage |-> slippage, slippage_list |-> slippage_list]
    ELSE LET price == Head(trade_history) IN
         IF price = 0
         THEN [exc |-> "ZeroDivisionError", slippage |-> slippage,
               slippage_list |-> slippage_list]
         ELSE LET s == Rat((best_ask - price) * 100, price) IN
              SlippageLoop(best_ask, Tail(trade_history), s,
                           IF Qualifies(s) THEN Append(slippage_list, s)
                                           ELSE slippage_list)

\* `if not ticker_data`: a TickerData instance is always truthy, so only a
\* missing ticker takes the branch
NoTicker(ticker) == ticker = None

\* the mutant: the early return reports no trades
NoTickerResultZeroVolume(market_data) ==
    CalcData(None, None, 0, market_data.timestamp)

\* the early return of the `if not ticker_data` branch
NoTickerResult(market_data) ==
    CalcData(None, None, Len(market_data.trade_history), market_data.timestamp)

\* the mutant: bid and ask are exchanged in the difference
SpreadSwapped(best_ask, best_bid) == Rat((best_bid - best_ask) * 100, best_ask)

\* (best_ask - best_bid) / best_ask * 100, for best_ask # 0
Spread(best_ask, best_bid) == Rat((best_ask - best_bid) * 100, best_ask)

calculate_spread_and_slippage(market_data) ==
    LET ticker_data == market_data.ticker
        trade_history == market_data.trade_history
    IN  IF NoTicker(ticker_data)
        THEN NoTickerResult(market_data)
        ELSE LET best_ask == ticker_data[1]
                 best_bid == ticker_data[2]
             IN  IF best_ask = 0
                 THEN Raised("ZeroDivisionError")
                 ELSE LET spread == Spread(best_ask, best_bid)
                          loop == SlippageLoop(best_ask, trade_history, None, <<>>)
                      IN  IF loop.exc # ""
                          THEN Raised(loop.exc)
                          ELSE LET slippage ==
                                     IF loop.slippage # None /\ Len(loop.slippage_list) > 0
                                     THEN Rat(RatSum(loop.slippage_list)[1],
                                              RatSum(loop.slippage_list)[2]
                                                * Len(loop.slippage_list))
                                     ELSE loop.slippage
                               IN  CalcData(spread, slippage, Len(trade_history),
                                            market_data.timestamp)

(* ------------------------------ state ----------------------------------- *)
VARIABLES
    pipeline,      \* where start_sockets is: "enter_kucoin", "enter_binance",
                   \* "monitoring", "failed" (an exception left it), "stopped"
    kpc,           \* where Kucoin._connect is: "bootstrap", "connect", "welcome",
                   \* "ack1", "ack2", "true" (returned True), "false", "raised"
    public_token,  \* Kucoin.public_token
    sent,          \* the frames Kucoin._connect has sent, in order
    discarded,     \* frames dropped by _wait_for_message_type (history)
    received,      \* types of the frames the waits of _connect returned (history)
    waitElapsed,   \* ticks since the running _wait_for_message_type call began
    recvElapsed,   \* ticks since the running wait_for(recv(), timeout) began
    ws,            \* self.websocket of each connector: "none", "open",
                   \* "closed_ok" (close code 1000), "closed_err"
    task,          \* the decode task of each connector: "none", "running",
                   \* "closed" (loop left by break), "failed" (exception in the task)
    market_data,   \* self.market_data of each connector
    gen,           \* each get_datapoint generator: "created", "sleeping",
                   \* "yielded" (suspended at yield), "raised"
    pending,       \* anext() of the generator was requested by zip and has not run
    buffer,        \* the batch gather holds for each source: None or <<batch>>
    rounds,        \* number of combined records the zip has emitted
    lastRecord,    \* the combined record emitted last
    produced,      \* number of batches each generator has yielded (history)
    appended,      \* trades appended per connector and market (history)
    counted,       \* trades counted in the volume of yielded batches (history)
    stalled,       \* the sleep of this generator never returns
    lastTicker,    \* payload of the latest ticker frame decoded, per market (history)
    frames,        \* frames received by the decode loops (history, bounded)
    now,           \* the clock read by datetime.now()
    calcIn,        \* SpecCalc: the MarketData given to the metrics computation
    calcOut,       \* SpecCalc: <<>> before the call, <<result>> after
    sinkIn,        \* SpecSink: the arguments given to insert_calc_data
    sinkOut        \* SpecSink: <<>> before the call, <<outcome>> after

vars == <<pipeline, kpc, public_token, sent, discarded, received, waitElapsed,
          recvElapsed, ws, task, market_data,
          gen, pending, buffer, rounds, lastRecord, produced, appended, counted,
          stalled, frames, lastTicker, now, calcIn, calcOut, sinkIn, sinkOut>>

connectVars == <<kpc, public_token, sent, discarded, received, waitElapsed,
                 recvElapsed>>
zipVars == <<gen, pending, buffer, rounds, lastRecord, produced, counted, stalled, now>>
calcVars == <<calcIn, calcOut>>
sinkVars == <<sinkIn, sinkOut>>
\* the variables of the calls checked on their own
pureVars == <<calcIn, calcOut, sinkIn, sinkOut>>

(* ------------------------------ construction ---------------------------- *)
\* Kucoin.__init__ starts every market with TickerData(0, 0),
\* ExchangeBase.__init__ with no ticker
InitialTicker(s) == IF s = "kucoin" THEN <<0, 0>> ELSE None

InitPipeline ==
    /\ pipeline = "enter_kucoin"
    /\ kpc = "bootstrap"
    /\ public_token = ""
    /\ sent = <<>>
    /\ discarded = 0
    /\ received = <<>>
    /\ waitElapsed = 0
    /\ recvElapsed = 0
    /\ ws = [s \in Sources |-> "none"]
    /\ task = [s \in Sources |-> "none"]
    /\ market_data = [s \in Sources |->
                         [m \in Markets |-> MarketData(InitialTicker(s), <<>>, 0)]]
    /\ gen = [s \in Sources |-> "created"]
    /\ pending = [s \in Sources |-> FALSE]
    /\ buffer = [s \in Sources |-> None]
    /\ rounds = 0
    /\ lastRecord = [s \in Sources |-> None]
    /\ produced = [s \in Sources |-> 0]
    /\ appended = [s \in Sources |-> [m \in Markets |-> 0]]
    /\ counted = [s \in Sources |-> [m \in Markets |-> 0]]
    /\ stalled = [s \in Sources |-> FALSE]
    /\ frames = 0
    /\ lastTicker = [s \in Sources |-> [m \in Markets |-> None]]
    /\ now = 0

\* the arguments of a call of insert_calc_data: data is a str (isStr) or a
\* dict, given as the sequence of its (market, CalcData) items in dict
\* order; translation is given by the set of its keys
SinkArgs(exchange, isStr, items, translation) ==
    [exchange |-> exchange, isStr |-> isStr, items |-> items,
     translation |-> translation]

NoCall == <<>>

Init ==
    /\ InitPipeline
    /\ calcIn = MarketData(None, <<>>, 0)
    /\ calcOut = NoCall
    /\ sinkIn = SinkArgs("binance", FALSE, <<>>, {})
    /\ sinkOut = NoCall

(* ------------------------------ __aexit__ ------------------------------- *)
\* `if self.websocket: await self.websocket.close()` for the connectors in
\* `entered`, applied to the websocket map w
AExit(entered, w) ==
    [s \in Sources |-> IF s \in entered /\ w[s] = "open" THEN "closed_ok" ELSE w[s]]

\* close() returns once the connection is closed; by then the recv() the
\* decode task of the connector was suspended in has raised
\* ConnectionClosedOK and the loop has left by its break
AExitTasks(entered, w, tk) ==
    [s \in Sources |-> IF s \in entered /\ w[s] = "open" /\ tk[s] = "running"
                       THEN "closed" ELSE tk[s]]

(* ------------------------------ Kucoin._connect ------------------------- *)
\* answers of the bootstrap POST
HttpResponses ==
    { [status |-> 200, token |-> "tok"],
      [status |-> 200, token |-> ""],
      [status |-> 500, token |-> "tok"] }

\* the mutant: __aenter__ returns self whatever _connect returned
KucoinAenterIgnoresResult(connected) == "enter_binance"

\* Kucoin.__aenter__: return self if _connect() returned True, else raise,
\* which leaves start_sockets before any connector was entered
KucoinAenter(connected) == IF connected THEN "enter_binance" ELSE "failed"

\* the POST to bullet-public; the token is kept only on status 200, and an
\* empty token makes _connect return False
KucoinBootstrap ==
    /\ pipeline = "enter_kucoin"
    /\ kpc = "bootstrap"
    /\ \E response \in HttpResponses :
          LET token == IF response.status = 200 THEN response.token ELSE public_token
          IN  /\ public_token' = token
              /\ IF token = ""
                 THEN /\ kpc' = "false"
                      /\ pipeline' = KucoinAenter(FALSE)
                 ELSE /\ kpc' = "connect"
                      /\ UNCHANGED pipeline
    /\ UNCHANGED <<sent, discarded, ws, task, market_data, frames>>
    /\ UNCHANGED <<received, waitElapsed, recvElapsed>>
    /\ UNCHANGED zipVars /\ UNCHANGED <<appended>> /\ UNCHANGED pureVars /\ UNCHANGED lastTicker

\* websockets.connect succeeds, then the auth frame is sent
KucoinOpen ==
    /\ pipeline = "enter_kucoin"
    /\ kpc = "connect"
    /\ ws' = [ws EXCEPT !["kucoin"] = "open"]
    /\ sent' = Append(sent, "auth")
    /\ kpc' = "welcome"
    /\ UNCHANGED <<pipeline, public_token, discarded, task, market_data, frames>>
    /\ UNCHANGED <<received, waitElapsed, recvElapsed>>
    /\ UNCHANGED zipVars /\ UNCHANGED <<appended>> /\ UNCHANGED pureVars /\ UNCHANGED lastTicker

\* websockets.connect raises: the exception leaves _connect and __aenter__
KucoinOpenRaises ==
    /\ pipeline = "enter_kucoin"
    /\ kpc = "connect"
    /\ kpc' = "raised"
    /\ pipeline' = "failed"
    /\ UNCHANGED <<public_token, sent, discarded, ws, task, market_data, frames>>
    /\ UNCHANGED <<received, waitElapsed, recvElapsed>>
    /\ UNCHANGED zipVars /\ UNCHANGED <<appended>> /\ UNCHANGED pureVars /\ UNCHANGED lastTicker

\* the timeout argument of the three _wait_for_message_type calls, in units
TimeoutUnits == 1
HandshakeTimeout == TimeoutUnits * TicksPerUnit

\* the mutant: every wait expects "welcome"
ExpectedAlwaysWelcome(pc) == "welcome"

\* the message type each wait of _connect expects
Expected(pc) == IF pc = "welcome" THEN "welcome" ELSE "ack"
FrameTypes == {"welcome", "ack", "message"}
Waiting == kpc \in {"welcome", "ack1", "ack2"}

\* time passes while wait_for(recv(), timeout) is pending; its timer ends it
\* at the timeout
HandshakeTime ==
    /\ pipeline = "enter_kucoin"
    /\ Waiting
    /\ recvElapsed < HandshakeTimeout
    /\ recvElapsed' = recvElapsed + 1
    /\ waitElapsed' = waitElapsed + 1
    /\ UNCHANGED <<pipeline, kpc, public_token, sent, discarded, received, ws, task,
                   market_data, frames>>
    /\ UNCHANGED zipVars /\ UNCHANGED <<appended>> /\ UNCHANGED pureVars /\ UNCHANGED lastTicker

\* _wait_for_message_type receives a frame of the expected type and returns
\* it; _connect goes on to its next send and wait, or, after the second ack,
\* creates the decode task and returns True
KucoinAck ==
    /\ pipeline = "enter_kucoin"
    /\ Waiting
    /\ ws["kucoin"] = "open"
    /\ recvElapsed < HandshakeTimeout
    /\ received' = Append(received, Expected(kpc))
    /\ waitElapsed' = 0
    /\ recvElapsed' = 0
    /\ \/ /\ kpc = "welcome"
          /\ sent' = Append(sent, "subscribe_ticker")
          /\ kpc' = "ack1"
          /\ UNCHANGED <<task, pipeline>>
       \/ /\ kpc = "ack1"
          /\ sent' = Append(sent, "subscribe_match")
          /\ kpc' = "ack2"
          /\ UNCHANGED <<task, pipeline>>
       \/ /\ kpc = "ack2"
          /\ task' = [task EXCEPT !["kucoin"] = "running"]
          /\ kpc' = "true"
          /\ pipeline' = KucoinAenter(TRUE)
          /\ UNCHANGED sent
    /\ UNCHANGED <<public_token, discarded, ws, market_data, frames>>
    /\ UNCHANGED zipVars /\ UNCHANGED <<appended>> /\ UNCHANGED pureVars /\ UNCHANGED lastTicker

\* a frame received during the handshake: its "type" field and, for a frame
\* with the shape of a ticker or trade message, the market and payload
HandshakeFrame(type, shape, market, payload) ==
    [type |-> type, shape |-> shape, market |-> market, payload |-> payload]

\* the frames that can arrive while _connect waits
HandshakeFrames ==
    { HandshakeFrame(type, "", "", <<>>) : type \in FrameTypes }
    \cup { HandshakeFrame("message", "ticker", m, t) : m \in Markets, t \in FrameTickers }
    \cup { HandshakeFrame("message", "trade", m, <<price>>) :
              m \in Markets, price \in FramePrices }

\* the mutant: a discarded frame with the shape of a ticker or trade message
\* is applied to the market it addresses
AfterDiscardRoutes(md, frame) ==
    IF frame.shape = "ticker"
    THEN [md EXCEPT !["kucoin"][frame.market].ticker = frame.payload]
    ELSE IF frame.shape = "trade"
    THEN [md EXCEPT !["kucoin"][frame.market].trade_history =
                       Append(@, frame.payload[1])]
    ELSE md

\* the market data after _wait_for_message_type has dropped a frame whose
\* type is not the expected one: the loop only reads data.get("type")
AfterDiscard(md, frame) == md

\* _wait_for_message_type receives a frame of another type and loops: the
\* frame is dropped and a new wait_for(recv(), timeout) begins
KucoinDiscard ==
    /\ pipeline = "enter_kucoin"
    /\ Waiting
    /\ ws["kucoin"] = "open"
    /\ recvElapsed < HandshakeTimeout
    /\ discarded < MaxDiscard
    /\ \E frame \in HandshakeFrames :
          /\ frame.type # Expected(kpc)
          /\ market_data' = AfterDiscard(market_data, frame)
    /\ discarded' = discarded + 1
    /\ recvElapsed' = 0
    /\ UNCHANGED <<pipeline, kpc, public_token, sent, received, waitElapsed, ws, task,
                   frames>>
    /\ UNCHANGED zipVars /\ UNCHANGED <<appended>> /\ UNCHANGED pureVars /\ UNCHANGED lastTicker

\* asyncio.wait_for times out: the wait returns None, _connect returns False
\* and __aenter__ raises; __aexit__ is not called for a connector whose
\* __aenter__ raised
KucoinTimeout ==
    /\ pipeline = "enter_kucoin"
    /\ Waiting
    /\ recvElapsed = HandshakeTimeout
    /\ kpc' = "false"
    /\ pipeline' = KucoinAenter(FALSE)
    /\ UNCHANGED <<public_token, sent, discarded, ws, task, market_data, frames>>
    /\ UNCHANGED <<received, waitElapsed, recvElapsed>>
    /\ UNCHANGED zipVars /\ UNCHANGED <<appended>> /\ UNCHANGED pureVars /\ UNCHANGED lastTicker

(* ------------------ Binance._connect, ExchangeBase.__aenter__ ----------- *)
\* websockets.connect succeeds, __aenter__ creates the decode task, and
\* start_sockets runs on to the first gather of stream.zip, which requests
\* the first item of both generators
BinanceEnter ==
    /\ pipeline = "enter_binance"
    /\ ws' = [ws EXCEPT !["binance"] = "open"]
    /\ task' = [task EXCEPT !["binance"] = "running"]
    /\ pipeline' = "monitoring"
    /\ pending' = [s \in Sources |-> TRUE]
    /\ UNCHANGED <<market_data, frames, appended>>
    /\ UNCHANGED connectVars /\ UNCHANGED pureVars /\ UNCHANGED lastTicker
    /\ UNCHANGED <<gen, buffer, rounds, lastRecord, produced, counted, stalled, now>>

\* websockets.connect raises: the async with unwinds and Kucoin.__aexit__
\* closes the connector entered before
BinanceConnectRaises ==
    /\ pipeline = "enter_binance"
    /\ pipeline' = "failed"
    /\ ws' = AExit({"kucoin"}, ws)
    /\ task' = AExitTasks({"kucoin"}, ws, task)
    /\ UNCHANGED <<market_data, frames, appended>>
    /\ UNCHANGED connectVars /\ UNCHANGED zipVars /\ UNCHANGED pureVars /\ UNCHANGED lastTicker

(* ------------- decode loops: _update_market_data, _ticker_update -------- *)
\* the decode task is suspended in `await self.websocket.recv()`
Receiving(s) == task[s] = "running" /\ ws[s] = "open" /\ frames < MaxFrames

\* the mutant: a trade is put in front of the trade_history
ApplyTradePrepends(mds, m, price) ==
    [mds EXCEPT ![m].trade_history = <<price>> \o @]

\* `self.market_data[market_name].ticker = TickerData(...)` on the
\* connector's market_data
ApplyTicker(mds, m, t) == [mds EXCEPT ![m].ticker = t]

\* `self.market_data[market_name].trade_history.append(TradeData(...))`
ApplyTrade(mds, m, price) == [mds EXCEPT ![m].trade_history = Append(@, price)]

\* a ticker frame for market m: the market's ticker is overwritten
DecodeTicker(s, m, t) ==
    /\ Receiving(s)
    /\ market_data' = [market_data EXCEPT ![s] = ApplyTicker(@, m, t)]
    /\ lastTicker' = [lastTicker EXCEPT ![s][m] = t]
    /\ frames' = frames + 1
    /\ UNCHANGED <<pipeline, ws, task, appended>>
    /\ UNCHANGED connectVars /\ UNCHANGED zipVars /\ UNCHANGED pureVars

\* a trade frame for market m (side "buy" for Kucoin): one TradeData is
\* appended to the market's trade_history
DecodeTrade(s, m, price) ==
    /\ Receiving(s)
    /\ market_data' = [market_data EXCEPT ![s] = ApplyTrade(@, m, price)]
    /\ appended' = [appended EXCEPT ![s][m] = @ + 1]
    /\ frames' = frames + 1
    /\ UNCHANGED <<pipeline, ws, task>>
    /\ UNCHANGED connectVars /\ UNCHANGED zipVars /\ UNCHANGED pureVars /\ UNCHANGED lastTicker

\* a frame of JSON that matches neither shape: the loop goes on
DecodeIgnored(s) ==
    /\ Receiving(s)
    /\ frames' = frames + 1
    /\ UNCHANGED <<pipeline, ws, task, market_data, appended>>
    /\ UNCHANGED connectVars /\ UNCHANGED zipVars /\ UNCHANGED pureVars /\ UNCHANGED lastTicker

\* a frame that is not JSON: json.loads raises inside the task; nothing
\* awaits the task, so the exception stays in it
DecodeMalformed(s) ==
    /\ Receiving(s)
    /\ task' = [task EXCEPT ![s] = "failed"]
    /\ frames' = frames + 1
    /\ UNCHANGED <<pipeline, ws, market_data, appended>>
    /\ UNCHANGED connectVars /\ UNCHANGED zipVars /\ UNCHANGED pureVars /\ UNCHANGED lastTicker

\* a market name frames can carry that was not given to the constructor
UnsubscribedMarkets == {"m3"}

\* `self.market_data[market_name]` finds the market
Subscribed(mds, market) == market \in DOMAIN mds

\* a ticker or trade frame for a market that is not a key of market_data:
\* the subscript raises KeyError inside the task; nothing awaits the task, so
\* the exception stays in it
DecodeUnsubscribed(s, market) ==
    /\ Receiving(s)
    /\ ~Subscribed(market_data[s], market)
    /\ task' = [task EXCEPT ![s] = "failed"]
    /\ frames' = frames + 1
    /\ UNCHANGED <<pipeline, ws, market_data, appended>>
    /\ UNCHANGED connectVars /\ UNCHANGED zipVars /\ UNCHANGED pureVars /\ UNCHANGED lastTicker

\* the peer closes the connection, cleanly (code 1000) or not, and recv()
\* raises: ConnectionClosedOK is caught and the loop breaks,
\* ConnectionClosedError is not caught and ends the task
CloseCodes == {"closed_ok", "closed_err"}
ServerClose(s, code) ==
    /\ task[s] = "running"
    /\ ws[s] = "open"
    /\ ws' = [ws EXCEPT ![s] = code]
    /\ task' = [task EXCEPT ![s] = IF code = "closed_ok" THEN "closed" ELSE "failed"]
    /\ UNCHANGED <<pipeline, market_data, appended, frames>>
    /\ UNCHANGED connectVars /\ UNCHANGED zipVars /\ UNCHANGED pureVars /\ UNCHANGED lastTicker

(* ------------------------------ get_datapoint --------------------------- *)
\* the mutant: the reset forgets trade_history.clear()
ResetBaseKeepsTrades(md) == [md EXCEPT !.ticker = None]

\* ExchangeBase.get_datapoint after the yield: ticker = None and
\* trade_history.clear()
ResetBase(md) == [md EXCEPT !.ticker = None, !.trade_history = <<>>]

\* Kucoin.get_datapoint after the yield: trade_history.clear() only
ResetKucoin(md) == [md EXCEPT !.trade_history = <<>>]

Reset(s, md) == IF s = "kucoin" THEN ResetKucoin(md) ELSE ResetBase(md)

\* the mutant: the generator runs on without being asked for its next item
RequestedAlways(pend, s) == TRUE

\* the gather of the zip has called anext() on the generator of s and the
\* call has not run yet: an async generator runs only inside anext()
Requested(pend, s) == pend[s]

\* anext() runs the generator from where it is suspended to its sleep: on the
\* first call from the top, later from the yield through the reset of every
\* market
Resume(s) ==
    /\ pipeline = "monitoring"
    /\ Requested(pending, s)
    /\ pending' = [pending EXCEPT ![s] = FALSE]
    /\ market_data' = IF gen[s] = "yielded"
                      THEN [market_data EXCEPT
                              ![s] = [m \in Markets |-> Reset(s, market_data[s][m])]]
                      ELSE market_data
    /\ gen' = [gen EXCEPT ![s] = "sleeping"]
    /\ UNCHANGED <<pipeline, ws, task, appended, frames>>
    /\ UNCHANGED <<buffer, rounds, lastRecord, produced, counted, stalled, now>>
    /\ UNCHANGED connectVars /\ UNCHANGED pureVars /\ UNCHANGED lastTicker

\* the timestamp loop: every market of the connector gets the same timestamp
Stamp(mds, timestamp) == [m \in Markets |-> [mds[m] EXCEPT !.timestamp = timestamp]]

\* the mutant: a trade frame for market m2 is decoded between the computation
\* for m1 and the computation for m2
ComputeAllTorn(mds) ==
    [m \in Markets |->
        calculate_spread_and_slippage(
           IF m = "m2" THEN [mds[m] EXCEPT !.trade_history = Append(@, 100)]
           ELSE mds[m])]

\* the dict comprehension of the yield
ComputeAll(mds) == [m \in Markets |-> calculate_spread_and_slippage(mds[m])]

\* the sleep is over: stamp, compute and yield one batch.  seq numbers the
\* batches of a source (history).
Tick(s) ==
    /\ pipeline = "monitoring"
    /\ gen[s] = "sleeping"
    /\ ~stalled[s]
    /\ produced[s] < MaxRounds
    /\ now' = now + 1
    /\ LET stamped == Stamp(market_data[s], now')
           data == ComputeAll(stamped)
       IN  /\ \A m \in Markets : data[m].exc = ""
           /\ market_data' = [market_data EXCEPT ![s] = stamped]
           /\ buffer' = [buffer EXCEPT
                           ![s] = <<[source |-> s, data |-> data,
                                     seq |-> produced[s] + 1]>>]
           /\ counted' = [counted EXCEPT
                            ![s] = [m \in Markets |-> @[m] + data[m].volume]]
    /\ gen' = [gen EXCEPT ![s] = "yielded"]
    /\ produced' = [produced EXCEPT ![s] = @ + 1]
    /\ UNCHANGED <<pipeline, ws, task, appended, frames>>
    /\ UNCHANGED <<pending, rounds, lastRecord, stalled>>
    /\ UNCHANGED connectVars /\ UNCHANGED pureVars /\ UNCHANGED lastTicker

\* the sleep is over and the computation of some market raises: the exception
\* leaves the generator, gather, the zip and the async for; both __aexit__
\* run and start_sockets ends with the exception
TickRaises(s) ==
    /\ pipeline = "monitoring"
    /\ gen[s] = "sleeping"
    /\ ~stalled[s]
    /\ produced[s] < MaxRounds
    /\ now' = now + 1
    /\ LET stamped == Stamp(market_data[s], now')
           data == ComputeAll(stamped)
       IN  /\ \E m \in Markets : data[m].exc # ""
           /\ market_data' = [market_data EXCEPT ![s] = stamped]
    /\ gen' = [gen EXCEPT ![s] = "raised"]
    /\ pipeline' = "failed"
    /\ ws' = AExit(Sources, ws)
    /\ task' = AExitTasks(Sources, ws, task)
    /\ UNCHANGED <<appended, frames>>
    /\ UNCHANGED <<pending, buffer, rounds, lastRecord, produced, counted, stalled>>
    /\ UNCHANGED connectVars /\ UNCHANGED pureVars /\ UNCHANGED lastTicker

\* the sleep of this generator never returns
Stall(s) ==
    /\ pipeline = "monitoring"
    /\ gen[s] = "sleeping"
    /\ ~stalled[s]
    /\ stalled' = [stalled EXCEPT ![s] = TRUE]
    /\ UNCHANGED <<pipeline, ws, task, market_data, appended, frames>>
    /\ UNCHANGED <<gen, pending, buffer, rounds, lastRecord, produced, counted, now>>
    /\ UNCHANGED connectVars /\ UNCHANGED pureVars /\ UNCHANGED lastTicker

(* ------------------------------ stream.zip ------------------------------ *)
\* the mutant: the zip does not wait for the slowest source
ZipReadyAny(buf) == \E s \in Sources : buf[s] # None

\* `await asyncio.gather(...)` over one anext() per source returns when every
\* source has yielded
ZipReady(buf) == \A s \in Sources : buf[s] # None

\* the zip yields the tuple, the body of the async for stores it, and the
\* next gather requests the next item of every generator
Emit ==
    /\ pipeline = "monitoring"
    /\ ZipReady(buffer)
    /\ rounds' = rounds + 1
    /\ lastRecord' = buffer
    /\ buffer' = [s \in Sources |-> None]
    /\ pending' = [s \in Sources |-> TRUE]
    /\ UNCHANGED <<pipeline, ws, task, market_data, appended, frames>>
    /\ UNCHANGED <<gen, produced, counted, stalled, now>>
    /\ UNCHANGED connectVars /\ UNCHANGED pureVars /\ UNCHANGED lastTicker

\* the run is cancelled from outside: the async with unwinds through both
\* __aexit__
Stop ==
    /\ pipeline = "monitoring"
    /\ pipeline' = "stopped"
    /\ ws' = AExit(Sources, ws)
    /\ task' = AExitTasks(Sources, ws, task)
    /\ UNCHANGED <<market_data, appended, frames>>
    /\ UNCHANGED connectVars /\ UNCHANGED zipVars /\ UNCHANGED pureVars /\ UNCHANGED lastTicker

(* ------------------------------ specification --------------------------- *)
Next ==
    \/ KucoinBootstrap
    \/ KucoinOpen
    \/ KucoinOpenRaises
    \/ HandshakeTime
    \/ KucoinAck
    \/ KucoinDiscard
    \/ KucoinTimeout
    \/ BinanceEnter
    \/ BinanceConnectRaises
    \/ \E s \in Sources, m \in Markets, t \in FrameTickers : DecodeTicker(s, m, t)
    \/ \E s \in Sources, m \in Markets, price \in FramePrices : DecodeTrade(s, m, price)
    \/ \E s \in Sources : DecodeIgnored(s)
    \/ \E s \in Sources : DecodeMalformed(s)
    \/ \E s \in Sources, market \in UnsubscribedMarkets : DecodeUnsubscribed(s, market)
    \/ \E s \in Sources, code \in CloseCodes : ServerClose(s, code)
    \/ \E s \in Sources : Resume(s)
    \/ \E s \in Sources : Tick(s)
    \/ \E s \in Sources : TickRaises(s)
    \/ \E s \in Sources : Stall(s)
    \/ Emit
    \/ Stop

Spec == Init /\ [][Next]_vars

(* ---------------- the metrics computation on its own -------------------- *)
\* every trade_history of up to MaxTrades prices
TradeHistories == UNION { [1..n -> Prices] : n \in 0..MaxTrades }
Tickers == {None} \cup (Prices \X Prices)
Timestamps == {1}

InitCalc ==
    /\ InitPipeline
    /\ calcIn \in { MarketData(t, h, ts) :
                      t \in Tickers, h \in TradeHistories, ts \in Timestamps }
    /\ calcOut = <<>>
    /\ sinkIn = SinkArgs("binance", FALSE, <<>>, {})
    /\ sinkOut = NoCall

\* one call of calculate_spread_and_slippage on calcIn
Compute ==
    /\ calcOut = <<>>
    /\ calcOut' = <<calculate_spread_and_slippage(calcIn)>>
    /\ UNCHANGED calcIn
    /\ UNCHANGED sinkVars
    /\ UNCHANGED <<pipeline, ws, task, market_data, appended, frames>>
    /\ UNCHANGED connectVars /\ UNCHANGED zipVars /\ UNCHANGED lastTicker

NextCalc == Compute

SpecCalc == InitCalc /\ [][NextCalc]_vars

(* ---------------- insert_calc_data on its own -------------------------- *)
\* the canonical symbol the translation gives for a native one
Canonical(market) == IF market = "m1" THEN "M1" ELSE "M2"

\* datetime.fromisoformat: the empty string (timestamp 0) does not parse
FromIsoformat(timestamp) ==
    IF timestamp = 0 THEN [exc |-> "ValueError", value |-> 0]
                     ELSE [exc |-> "", value |-> timestamp]

\* the CalcDataModel row built from one item
Row(exchange, market, calc_data) ==
    [exchange |-> exchange, market |-> Canonical(market),
     spread |-> calc_data.spread, slippage |-> calc_data.slippage,
     volume |-> calc_data.volume,
     timestamp |-> FromIsoformat(calc_data.timestamp).value]

\* the outcome of a call: the rows added to the session, the exception that
\* left the call ("" if it returned) and the logged diagnostics
SinkOutcome(rows, exc, log) == [rows |-> rows, exc |-> exc, log |-> log]

\* translation[market] finds an entry; a missing key raises KeyError
Translated(market, translation) == market \in translation

\* the for loop over data.items(): one session.add per item; the first item
\* whose market has no translation entry, or whose timestamp does not parse,
\* raises out of the call, the rows added before staying in the session
RECURSIVE InsertLoop(_, _, _, _)
InsertLoop(exchange, items, translation, rows) ==
    IF items = <<>>
    THEN SinkOutcome(rows, "", <<>>)
    ELSE LET market == Head(items)[1]
             calc_data == Head(items)[2]
         IN  IF ~Translated(market, translation)
             THEN SinkOutcome(rows, "KeyError", <<>>)
             ELSE IF FromIsoformat(calc_data.timestamp).exc # ""
             THEN SinkOutcome(rows, FromIsoformat(calc_data.timestamp).exc, <<>>)
             ELSE InsertLoop(exchange, Tail(items), translation,
                             Append(rows, Row(exchange, market, calc_data)))

\* insert_calc_data: a str given as data is logged and nothing is added
insert_calc_data(args) ==
    IF args.isStr
    THEN SinkOutcome(<<>>, "", <<"Incompatible exchange or data type.">>)
    ELSE InsertLoop(args.exchange, args.items, args.translation, <<>>)

\* the CalcData values of the batches given to the sink
SinkCalcs ==
    { CalcData(None, None, 0, 1),
      CalcData(<<50, 1>>, None, 0, 1),
      CalcData(<<50, 1>>, <<0, 1>>, 1, 1) }

\* the dicts over one or two markets, in both orders
SinkItems ==
    { <<<<m, x>>>> : m \in Markets, x \in SinkCalcs }
    \cup { <<<<p[1], x>>, <<p[2], y>>>> :
              p \in {q \in Markets \X Markets : q[1] # q[2]},
              x \in SinkCalcs, y \in SinkCalcs }

InitSink ==
    /\ InitPipeline
    /\ calcIn = MarketData(None, <<>>, 0)
    /\ calcOut = NoCall
    /\ sinkIn \in { SinkArgs(e, FALSE, items, tr) :
                      e \in Sources, items \in SinkItems, tr \in SUBSET Markets }
                  \cup { SinkArgs(e, TRUE, <<>>, tr) :
                           e \in Sources, tr \in SUBSET Markets }
    /\ sinkOut = NoCall

\* one call of insert_calc_data on sinkIn
Insert ==
    /\ sinkOut = NoCall
    /\ sinkOut' = <<insert_calc_data(sinkIn)>>
    /\ UNCHANGED sinkIn
    /\ UNCHANGED calcVars
    /\ UNCHANGED <<pipeline, ws, task, market_data, appended, frames>>
    /\ UNCHANGED connectVars /\ UNCHANGED zipVars /\ UNCHANGED lastTicker

NextSink == Insert

SpecSink == InitSink /\ [][NextSink]_vars

(* ------------------------------ properties ------------------------------ *)
\* the batch of source s in the combined record emitted last
LastBatch(s) == lastRecord[s][1]

\* C1: the zip emits the k-th combined record only after every source has
\* yielded its k-th batch, the k-th record holds exactly the k-th batch of
\* every source, and records are emitted in increasing round order.
C1_LockStep ==
    /\ [](rounds > 0 =>
            \A s \in Sources :
               /\ Len(lastRecord[s]) = 1
               /\ LastBatch(s).source = s
               /\ LastBatch(s).seq = rounds
               /\ produced[s] >= rounds)
    /\ [][rounds' # rounds =>
            /\ rounds' = rounds + 1
            /\ \A s \in Sources :
                  /\ produced[s] >= rounds'
                  /\ buffer[s] # None
                  /\ lastRecord'[s] = buffer[s]]_vars

\* C1 witness: the second combined record was emitted, made of the second
\* batch of both sources
C1_Witness ==
    /\ rounds = 2
    /\ \A s \in Sources : Len(lastRecord[s]) = 1 /\ LastBatch(s).seq = 2

\* C2: while a source is stalled without having yielded its batch of the
\* current round, no combined record is emitted, the stall lasts, and no
\* record ever holds the batches of only some sources.
C2_StallBlocksZip ==
    /\ [][(\E s \in Sources : stalled[s] /\ buffer[s] = None) =>
            /\ rounds' = rounds
            /\ lastRecord' = lastRecord
            /\ \A s \in Sources :
                  (stalled[s] /\ buffer[s] = None) => (stalled'[s] /\ buffer'[s] = None)]_vars
    /\ [](rounds > 0 => \A s \in Sources : lastRecord[s] # None)

\* C2 witness: one source is stalled in a later round, the other source has
\* yielded its batch of that round and its decode loop still runs
C2_Witness ==
    \E s, o \in Sources :
       /\ s # o
       /\ stalled[s] /\ buffer[s] = None
       /\ rounds = 1
       /\ buffer[o] # None /\ produced[o] = 2
       /\ task[o] = "running" /\ ws[o] = "open"

\* C3: no trade is appended to a market between the computation of a tick
\* and the clear that follows it, so every appended trade is counted in the
\* volume of exactly one batch.
C3_EveryTradeCountedOnce ==
    \A s \in Sources, m \in Markets :
       IF gen[s] = "yielded"
       THEN appended[s][m] = counted[s][m]
       ELSE appended[s][m] = counted[s][m] + Len(market_data[s][m].trade_history)

\* the step in which generator s completes the reset after its yield
ResetStep(s) == gen[s] = "yielded" /\ gen'[s] = "sleeping"

\* C4: when the reset of a tick completes, every market of the connector has
\* an empty trade_history; the ExchangeBase variant has no ticker then, the
\* Kucoin variant has the ticker it had before the reset.
C4_ResetClears ==
    [][\A s \in Sources :
          ResetStep(s) =>
             \A m \in Markets :
                /\ Len(market_data'[s][m].trade_history) = 0
                /\ (s = "binance" => market_data'[s][m].ticker = None)
                /\ (s = "kucoin" =>
                       market_data'[s][m].ticker = market_data[s][m].ticker)]_vars

\* C4 witness: both variants have completed the reset of their first tick;
\* the Kucoin market had a trade at that tick and still has its ticker
C4_Witness ==
    /\ \A s \in Sources : gen[s] = "sleeping" /\ produced[s] = 1
    /\ \E m \in Markets :
          /\ counted["kucoin"][m] = 1
          /\ market_data["kucoin"][m].trade_history = <<>>
          /\ market_data["kucoin"][m].ticker = <<100, 50>>
    /\ \A m \in Markets : market_data["binance"][m].ticker = None

\* C5: after a fatal error of a decode loop the connector's generator yields
\* no further batch and the zip emits no further record.
C5_FatalDecodeStopsPipeline ==
    [][\A s \in Sources :
          task[s] = "failed" => (produced'[s] = produced[s] /\ rounds' = rounds)]_vars

\* C6: when Kucoin._connect returns False, the caller gets the failure, the
\* decode task was never created, no connector streams and no batch exists.
C6_SetupFailure ==
    kpc = "false" =>
       /\ pipeline = "failed"
       /\ \A s \in Sources :
             /\ task[s] = "none"
             /\ gen[s] = "created"
             /\ produced[s] = 0
             /\ buffer[s] = None
       /\ rounds = 0

\* C6 witness: the token was obtained and the auth frame sent, and the wait
\* for "welcome" timed out
C6_Witness ==
    /\ kpc = "false"
    /\ public_token = "tok"
    /\ sent = <<"auth">>
    /\ pipeline = "failed"

\* connector s has ended: its setup failed, its decode loop has ended, or
\* start_sockets is over
ConnectorDone(s) ==
    \/ task[s] \in {"closed", "failed"}
    \/ s = "kucoin" /\ kpc \in {"false", "raised"}
    \/ pipeline \in {"failed", "stopped"}

\* C7: no connector that has ended still has its transport open.
C7_TransportReleased ==
    \A s \in Sources : ConnectorDone(s) => ws[s] # "open"

\* the call of SpecCalc has been made
Computed == calcOut # <<>>
Result == calcOut[1]
HasTicker == calcIn.ticker # None
BestAsk == calcIn.ticker[1]

\* C8: with a ticker whose best_ask is 0 the computation returns spread None,
\* slippage None and the number of trades as volume, and does not raise.
C8_ZeroAskGivesNone ==
    (Computed /\ HasTicker /\ BestAsk = 0) =>
       Result = CalcData(None, None, Len(calcIn.trade_history), calcIn.timestamp)

\* the trades of history h with a non-zero price
NonZeroTrades(h) == SelectSeq(h, LAMBDA price : price # 0)

\* C9: a trade with price 0 is skipped: the computation returns, with the
\* slippage of the same input without its zero-priced trades.
C9_ZeroPriceSkipped ==
    (Computed /\ HasTicker /\ BestAsk # 0
       /\ \E i \in 1..Len(calcIn.trade_history) : calcIn.trade_history[i] = 0) =>
          /\ Result.exc = ""
          /\ Result.slippage =
                calculate_spread_and_slippage(
                   [calcIn EXCEPT !.trade_history = NonZeroTrades(@)]).slippage

\* the slippage (best_ask - price) / price * 100 of one trade
TradeSlippage(best_ask, price) == Rat((best_ask - price) * 100, price)

\* C10: with a ticker and trades of which none has a slippage <= 2.0 the
\* reported slippage is None; so a reported slippage is never above 2.0.
C10_NoQualifyingGivesNone ==
    (Computed /\ HasTicker /\ BestAsk # 0
       /\ \A i \in 1..Len(calcIn.trade_history) : calcIn.trade_history[i] # 0) =>
          /\ (/\ Len(calcIn.trade_history) > 0
              /\ \A i \in 1..Len(calcIn.trade_history) :
                    ~RatLeq(TradeSlippage(BestAsk, calcIn.trade_history[i]), <<2, 1>>))
                => Result.slippage = None
          /\ Result.slippage # None => RatLeq(Result.slippage, <<2, 1>>)

\* C11: without a ticker the computation returns spread None, slippage None
\* and the number of trades as volume, for every trade history, and leaves
\* the MarketData as it was.
C11_NoTickerGivesNone ==
    /\ []((Computed /\ ~HasTicker) =>
            /\ Result.exc = ""
            /\ Result.spread = None
            /\ Result.slippage = None
            /\ Result.volume = Len(calcIn.trade_history)
            /\ Result.timestamp = calcIn.timestamp)
    /\ [][calcIn' = calcIn]_vars

\* C11 witness: the call was made without a ticker on a history of
\* MaxTrades trades, one of them priced 0
C11_Witness ==
    /\ Computed /\ ~HasTicker
    /\ Len(calcIn.trade_history) = 3
    /\ \E i \in 1..3 : calcIn.trade_history[i] = 0
    /\ Result.volume = 3

\* the reference: the slippages of the trades of h that qualify, a
\* zero-priced trade being skipped
RefQualifying(best_ask, h) ==
    LET priced == SelectSeq(h, LAMBDA price : price # 0)
        s == [i \in 1..Len(priced) |-> TradeSlippage(best_ask, priced[i])]
    IN  SelectSeq(s, LAMBDA x : RatLeq(x, <<2, 1>>))

\* the mean of a non-empty list of rationals
RefMean(list) == Rat(RatSum(list)[1], RatSum(list)[2] * Len(list))

\* what C12 states of the result of a call on calcIn
C12_Statement ==
    /\ Result.exc = ""
    /\ Result.volume = Len(calcIn.trade_history)
    /\ Len(calcIn.trade_history) = 0 =>
          (Result.slippage = None /\ Result.spread # None)
    /\ Len(RefQualifying(BestAsk, calcIn.trade_history)) > 0 =>
          Result.slippage = RefMean(RefQualifying(BestAsk, calcIn.trade_history))

\* C12: with a ticker (best_ask # 0) the slippage is None for no trades and
\* otherwise the mean of s = (best_ask - price) / price * 100 over the trades
\* with s <= 2.0 when one qualifies, with no lower bound on s; the volume
\* counts every trade.
C12_SlippageIsReference ==
    (Computed /\ HasTicker /\ BestAsk # 0) => C12_Statement

\* the trade history of calcIn has no zero-priced trade
NoZeroPrice ==
    \A i \in 1..Len(calcIn.trade_history) : calcIn.trade_history[i] # 0

\* C12 on the histories without a zero-priced trade
C12_OnNonZeroPrices ==
    (Computed /\ HasTicker /\ BestAsk # 0 /\ NoZeroPrice) => C12_Statement

\* the book of calcIn is crossed
Crossed == calcIn.ticker[2] > calcIn.ticker[1] /\ calcIn.ticker[1] > 0

\* C13: with a ticker (best_ask # 0) the spread is
\* (best_ask - best_bid) / best_ask * 100 whatever the trade history is,
\* negative exactly when the book is crossed.
C13_SpreadIsFormula ==
    (Computed /\ HasTicker /\ BestAsk # 0) =>
       /\ Result.exc = ""
       /\ Result.spread # None
       /\ Result.spread[1] * BestAsk = (BestAsk - calcIn.ticker[2]) * 100 * Result.spread[2]
       /\ (BestAsk > 0 => (Result.spread[1] < 0 <=> Crossed))

\* C13 on the histories without a zero-priced trade
C13_OnNonZeroPrices ==
    (Computed /\ HasTicker /\ BestAsk # 0 /\ NoZeroPrice) =>
       /\ Result.exc = ""
       /\ Result.spread # None
       /\ Result.spread[1] * BestAsk = (BestAsk - calcIn.ticker[2]) * 100 * Result.spread[2]
       /\ (Result.spread[1] < 0 <=> Crossed)

Inserted == sinkOut # NoCall
Outcome == sinkOut[1]

\* the items of the batch whose market has a translation entry
TranslatedItems ==
    SelectSeq(sinkIn.items, LAMBDA item : item[1] \in sinkIn.translation)

\* C15: for a batch with a market that has no translation entry the call
\* does not raise, logs a diagnostic, and adds the rows of exactly the other
\* markets of the batch.
C15_UnknownSymbolDropped ==
    (Inserted /\ ~sinkIn.isStr
       /\ \E i \in 1..Len(sinkIn.items) : sinkIn.items[i][1] \notin sinkIn.translation) =>
          /\ Outcome.exc = ""
          /\ Outcome.log # <<>>
          /\ Outcome.rows =
                [i \in 1..Len(TranslatedItems) |->
                    Row(sinkIn.exchange, TranslatedItems[i][1], TranslatedItems[i][2])]

(* ------------- the streaming phase with distinguishable frames ----------- *)
\* ticker and trade payloads of the frames of SpecStream
StreamTickers == {<<100, 50>>, <<50, 50>>}
StreamPrices == {100, 50}

\* both connectors have been entered and the async for is about to request
\* the first item of every generator
InitStream ==
    /\ pipeline = "monitoring"
    /\ kpc = "true"
    /\ public_token = "tok"
    /\ sent = <<"auth", "subscribe_ticker", "subscribe_match">>
    /\ discarded = 0
    /\ received = <<"welcome", "ack", "ack">>
    /\ waitElapsed = 0
    /\ recvElapsed = 0
    /\ ws = [s \in Sources |-> "open"]
    /\ task = [s \in Sources |-> "running"]
    /\ market_data = [s \in Sources |->
                         [m \in Markets |-> MarketData(InitialTicker(s), <<>>, 0)]]
    /\ gen = [s \in Sources |-> "created"]
    /\ pending = [s \in Sources |-> TRUE]
    /\ buffer = [s \in Sources |-> None]
    /\ rounds = 0
    /\ lastRecord = [s \in Sources |-> None]
    /\ produced = [s \in Sources |-> 0]
    /\ appended = [s \in Sources |-> [m \in Markets |-> 0]]
    /\ counted = [s \in Sources |-> [m \in Markets |-> 0]]
    /\ stalled = [s \in Sources |-> FALSE]
    /\ frames = 0
    /\ lastTicker = [s \in Sources |-> [m \in Markets |-> None]]
    /\ now = 0
    /\ calcIn = MarketData(None, <<>>, 0)
    /\ calcOut = NoCall
    /\ sinkIn = SinkArgs("binance", FALSE, <<>>, {})
    /\ sinkOut = NoCall

\* the steps of two connectors that stay connected: frames of the three
\* shapes, the generators, the zip, and the stop of the run
NextStream ==
    \/ \E s \in Sources, m \in Markets, t \in StreamTickers : DecodeTicker(s, m, t)
    \/ \E s \in Sources, m \in Markets, price \in StreamPrices : DecodeTrade(s, m, price)
    \/ \E s \in Sources : DecodeIgnored(s)
    \/ \E s \in Sources : Resume(s)
    \/ \E s \in Sources : Tick(s)
    \/ \E s \in Sources : TickRaises(s)
    \/ Emit
    \/ Stop

SpecStream == InitStream /\ [][NextStream]_vars

(* ------------------------------ properties ------------------------------ *)
\* the frames Kucoin._connect sends, in the order of its code
HandshakeOrder == <<"auth", "subscribe_ticker", "subscribe_match">>

\* the decode loop of connector s has been started
Started(s) == task[s] # "none"

\* C16: Kucoin sends auth, then the ticker subscription only after a
\* "welcome" was received, then the trade subscription only after the first
\* ack, and starts its decode loop only after both acks; Binance starts its
\* decode loop in the step that opens the transport, sending and awaiting
\* nothing; in both the decode loop was started iff connect reported success.
C16_HandshakeOrder ==
    /\ [](/\ Len(sent) <= 3
          /\ sent = SubSeq(HandshakeOrder, 1, Len(sent))
          /\ Len(sent) >= 2 => (Len(received) >= 1 /\ received[1] = "welcome")
          /\ Len(sent) = 3 => (Len(received) >= 2 /\ received[2] = "ack")
          /\ Started("kucoin") => (sent = HandshakeOrder
                                   /\ received = <<"welcome", "ack", "ack">>)
          /\ Started("kucoin") <=> kpc = "true"
          /\ Started("binance") <=> ws["binance"] # "none")
    /\ [][(ws["binance"] = "none" /\ ws'["binance"] # "none") =>
             /\ ws'["binance"] = "open"
             /\ task'["binance"] = "running"
             /\ sent' = sent
             /\ received' = received
             /\ discarded' = discarded]_vars

\* C16 witness: both decode loops run, Kucoin's after the whole handshake
C16_Witness ==
    /\ task["kucoin"] = "running"
    /\ task["binance"] = "running"
    /\ received = <<"welcome", "ack", "ack">>
    /\ sent = HandshakeOrder

\* C17: a wait of the handshake never lasts longer than the timeout, also
\* when frames of another type keep arriving.
C17_WaitEndsWithinTimeout ==
    Waiting => waitElapsed <= HandshakeTimeout

\* C18: a step that discards a frame happens only while the handshake waits
\* and the decode loop has not been started, and it changes no ticker, trade
\* history or timestamp of any market.
C18_DiscardKeepsMarketData ==
    [][discarded' # discarded =>
          /\ Waiting
          /\ ~Started("kucoin")
          /\ discarded' = discarded + 1
          /\ market_data' = market_data
          /\ appended' = appended
          /\ frames' = frames]_vars

\* C18 witness: the handshake has discarded a frame and gone on to start the
\* decode loop with the market data as constructed
C18_Witness ==
    /\ discarded >= 1
    /\ task["kucoin"] = "running"
    /\ \A m \in Markets : market_data["kucoin"][m] = MarketData(InitialTicker("kucoin"), <<>>, 0)

\* the peer has closed the connection of s cleanly and the run goes on
CleanlyClosed(s) ==
    ws[s] = "closed_ok" /\ pipeline \in {"enter_binance", "monitoring"}

\* the sleep of the generator of s is over and its next batch is due
TickDue(s) ==
    /\ pipeline = "monitoring"
    /\ gen[s] = "sleeping"
    /\ ~stalled[s]
    /\ produced[s] < MaxRounds

\* after a clean close of s the decode loop has ended without an exception,
\* the run is not failed by it, the connection is not opened again and no
\* frame changes the market data of s
QuietClose ==
    /\ [](\A s \in Sources : CleanlyClosed(s) => task[s] = "closed")
    /\ [][\A s \in Sources :
            /\ (ws[s] = "open" /\ ws'[s] = "closed_ok" /\ task'[s] = "closed"
                  /\ task[s] = "running" /\ pipeline' = pipeline) =>
                  (gen' = gen /\ stalled' = stalled /\ market_data' = market_data)
            /\ task[s] = "closed" =>
                  /\ task'[s] = "closed"
                  /\ ws'[s] = ws[s]
                  /\ appended'[s] = appended[s]
                  /\ \A m \in Markets :
                        /\ market_data'[s][m].ticker \in
                              {market_data[s][m].ticker, None}
                        /\ market_data'[s][m].trade_history \in
                              {market_data[s][m].trade_history, <<>>}]_vars

\* C19: after a clean close by the peer the decode loop has ended without an
\* error, the connector is not reconnected and no frame updates its market
\* data, and its generator still yields a batch whenever its sleep is over.
C19_CleanCloseKeepsEmitting ==
    /\ QuietClose
    /\ [](\A s \in Sources : (CleanlyClosed(s) /\ TickDue(s)) => ENABLED Tick(s))

\* C19 for the ticks whose computation does not raise
C19_OnComputableData ==
    /\ QuietClose
    /\ [](\A s \in Sources :
            (CleanlyClosed(s) /\ TickDue(s)
               /\ \A m \in Markets :
                     calculate_spread_and_slippage(
                        [market_data[s][m] EXCEPT !.timestamp = now + 1]).exc = "")
            => ENABLED Tick(s))

\* the market data of every market but (s, m) is left as it is
OthersUnchanged(s, m) ==
    \A s2 \in Sources, m2 \in Markets :
        (s2 # s \/ m2 # m) => market_data'[s2][m2] = market_data[s2][m2]

\* a decoded ticker frame overwrites the addressed market's ticker with the
\* frame's pair and a decoded trade frame appends the frame's price as the
\* last element of the addressed market's trade_history; nothing else of the
\* market data changes
FrameEffects ==
    [][\A s \in Sources, m \in Markets :
          /\ \A t \in StreamTickers :
                DecodeTicker(s, m, t) =>
                   /\ market_data'[s][m].ticker = t
                   /\ market_data'[s][m].trade_history = market_data[s][m].trade_history
                   /\ market_data'[s][m].timestamp = market_data[s][m].timestamp
                   /\ OthersUnchanged(s, m)
          /\ \A price \in StreamPrices :
                DecodeTrade(s, m, price) =>
                   /\ Len(market_data'[s][m].trade_history) =
                         Len(market_data[s][m].trade_history) + 1
                   /\ \A i \in 1..Len(market_data[s][m].trade_history) :
                         market_data'[s][m].trade_history[i] =
                            market_data[s][m].trade_history[i]
                   /\ market_data'[s][m].trade_history[
                         Len(market_data'[s][m].trade_history)] = price
                   /\ market_data'[s][m].ticker = market_data[s][m].ticker
                   /\ market_data'[s][m].timestamp = market_data[s][m].timestamp
                   /\ OthersUnchanged(s, m)]_vars

\* the batch a tick of s yields for market m is the one computed from the
\* given ticker and the market's trade_history
BatchUses(s, m, ticker) ==
    buffer'[s][1].data[m] =
       calculate_spread_and_slippage(
          MarketData(ticker, market_data[s][m].trade_history, now'))

\* C20: a ticker frame overwrites only the addressed market's ticker, a
\* trade frame appends exactly one trade at the end of the addressed market's
\* trade_history, and the batch of every tick is computed from the ticker of
\* the latest ticker frame decoded for the market.
C20_LatestTickerUsed ==
    /\ FrameEffects
    /\ [][\A s \in Sources : Tick(s) =>
             \A m \in Markets :
                lastTicker[s][m] # None => BatchUses(s, m, lastTicker[s][m])]_vars

\* C20 amended: the frame effects as above; a ticker is changed by nothing
\* but a ticker frame for its market and, for a connector whose reset clears
\* it, the reset; so the batch of a tick is computed from the ticker of the
\* latest ticker frame decoded for the market or, after such a reset without
\* a later ticker frame, from no ticker.
C20_LatestTickerSinceReset ==
    /\ FrameEffects
    /\ [][\A s \in Sources, m \in Markets :
             market_data'[s][m].ticker # market_data[s][m].ticker =>
                \/ \E t \in StreamTickers : DecodeTicker(s, m, t)
                \/ /\ Resume(s)
                   /\ gen[s] = "yielded"
                   /\ Reset(s, market_data[s][m]).ticker = None
                   /\ market_data'[s][m].ticker = None]_vars
    /\ [][\A s \in Sources : Tick(s) =>
             \A m \in Markets :
                /\ BatchUses(s, m, market_data[s][m].ticker)
                /\ lastTicker[s][m] # None =>
                      \/ market_data[s][m].ticker = lastTicker[s][m]
                      \/ /\ market_data[s][m].ticker = None
                         /\ ResetBase(market_data[s][m]) = Reset(s, market_data[s][m])
                         /\ produced[s] >= 1]_vars

\* C20 witness: the second batch of Binance is computed without a ticker for
\* a market whose ticker frame was decoded before the reset
C20_Witness ==
    /\ buffer["binance"] # None
    /\ buffer["binance"][1].seq = 2
    /\ \E m \in Markets :
          /\ lastTicker["binance"][m] \in StreamTickers
          /\ market_data["binance"][m].ticker = None
          /\ buffer["binance"][1].data[m].spread = None

\* the step decodes a frame for connector s that cannot be routed: one of
\* neither shape (or, for Kucoin, a trade that is not a buy), or one for a
\* market that is not subscribed
DecodesUnroutable(s) ==
    \/ DecodeIgnored(s)
    \/ \E market \in UnsubscribedMarkets : DecodeUnsubscribed(s, market)

\* C21: decoding a frame that cannot be routed leaves every market's data
\* as it is and the decode loop running on the open connection.
C21_UnroutableIgnored ==
    [][\A s \in Sources : DecodesUnroutable(s) =>
          /\ market_data' = market_data
          /\ appended' = appended
          /\ task'[s] = "running"
          /\ ws'[s] = "open"]_vars

\* C21 for the frames of neither shape
C21_OnSubscribedMarkets ==
    [][\A s \in Sources : DecodeIgnored(s) =>
          /\ market_data' = market_data
          /\ appended' = appended
          /\ task'[s] = "running"
          /\ ws'[s] = "open"]_vars

\* the sleep of the generator of s ends in this step
Firing(s) == Tick(s) \/ TickRaises(s)

\* the step stamps every market of s with one timestamp, yields one batch of
\* source s holding one result per market of s with that timestamp, and
\* resets nothing
YieldsStampedBatch(s) ==
    /\ produced'[s] = produced[s] + 1
    /\ gen'[s] = "yielded"
    /\ buffer'[s] # None
    /\ Len(buffer'[s]) = 1
    /\ buffer'[s][1].source = s
    /\ DOMAIN buffer'[s][1].data = DOMAIN market_data[s]
    /\ \A m \in DOMAIN market_data[s] :
          /\ buffer'[s][1].data[m].exc = ""
          /\ buffer'[s][1].data[m].timestamp = now'
          /\ market_data'[s][m].timestamp = now'
          /\ market_data'[s][m].ticker = market_data[s][m].ticker
          /\ market_data'[s][m].trade_history = market_data[s][m].trade_history

\* the reset of the markets of s runs only when the generator is resumed
\* from its yield
ResetAfterYield ==
    \A s \in Sources, m \in Markets :
        (\/ market_data'[s][m].trade_history = <<>> /\ market_data[s][m].trade_history # <<>>
         \/ market_data'[s][m].ticker = None /\ market_data[s][m].ticker # None)
        => (Resume(s) /\ gen[s] = "yielded" /\ produced[s] >= 1)

\* C22: every firing of a generator stamps, computes and yields exactly one
\* batch of its source with one result per subscribed market, all with the
\* timestamp stamped at that firing, and the reset comes after the yield.
C22_EveryFiringYields ==
    /\ [][\A s \in Sources : Firing(s) => YieldsStampedBatch(s)]_vars
    /\ [][ResetAfterYield]_vars

\* C22 for the firings whose computation does not raise
C22_OnComputableData ==
    /\ [][\A s \in Sources : Tick(s) => YieldsStampedBatch(s)]_vars
    /\ [][ResetAfterYield]_vars

\* the batches of s that were produced and are not yet part of a record
Uncombined(s) == produced[s] - rounds

\* C23: a source has at most one batch that is not yet combined, the one the
\* zip holds for it, and produces its batch for the next round only after
\* the record of the round before was emitted.
C23_OneBatchPerSource ==
    /\ [](\A s \in Sources :
            /\ Uncombined(s) \in {0, 1}
            /\ Uncombined(s) = 1 <=> buffer[s] # None
            /\ buffer[s] # None =>
                  (Len(buffer[s]) = 1 /\ buffer[s][1].seq = rounds + 1))
    /\ [][\A s \in Sources :
            produced'[s] # produced[s] =>
               (produced'[s] = produced[s] + 1 /\ rounds = produced[s])]_vars

\* C23 witness: after the first record one source has produced its second
\* batch and waits with it while the other source's sleep never returns
C23_Witness ==
    \E s \in Sources, o \in Sources :
        /\ o # s
        /\ stalled[o]
        /\ rounds = 1
        /\ produced[s] = 2
        /\ produced[o] = 1
        /\ buffer[s] # None
        /\ gen[s] = "yielded"

\* C24: in the step that yields a batch of s no frame is decoded, the market
\* data of s changes in its timestamps only, and the result of every market
\* is the computation on that market's data as they are after the step: the
\* batch is computed from one state of all the markets of s.
C24_BatchFromOneState ==
    [][\A s \in Sources :
          produced'[s] # produced[s] =>
             /\ frames' = frames
             /\ appended' = appended
             /\ buffer'[s] # None
             /\ \A m \in Markets :
                   /\ market_data'[s][m] =
                         [market_data[s][m] EXCEPT !.timestamp = now']
                   /\ buffer'[s][1].data[m] =
                         calculate_spread_and_slippage(market_data'[s][m])]_vars

\* C24 witness: Binance has just yielded a batch computed after a trade frame
\* for m1 and a ticker frame for m2 were decoded
C24_Witness ==
    /\ gen["binance"] = "yielded"
    /\ buffer["binance"] # None
    /\ appended["binance"]["m1"] = 1
    /\ lastTicker["binance"]["m2"] # None
    /\ buffer["binance"][1].data["m1"].volume = 1
    /\ buffer["binance"][1].data["m2"].spread # None
    /\ \A m \in Markets :
          buffer["binance"][1].data[m] =
             calculate_spread_and_slippage(market_data["binance"][m])

====
